---- MODULE Spec2Model ----
(***************************************************************************)
(* find-me (src/index.js): fetch one iCalendar feed, decode the JSON that  *)
(* each event carries in its DESCRIPTION, classify the events into role    *)
(* buckets, sort them by start date, drop the past ones and render.        *)
(*                                                                         *)
(* src/index.js holds two variants of the program: lines 1-152 (with the   *)
(* --json and --historical flags) and lines 154-285 (the earlier one,      *)
(* which pads the fields and filters inside renderBox).  The variable      *)
(* `variant` says which one runs.                                          *)
(*                                                                         *)
(* A text is a sequence of characters, each character a one-element        *)
(* string, so that the regular-expression replacements, slicing, padding   *)
(* and JSON.parse are computed character by character.                     *)
(***************************************************************************)
EXTENDS Integers, Sequences, FiniteSets, TLC

\* ------------------------------------------------------------------------
\* Characters
\* ------------------------------------------------------------------------
BS == "\\"
DQ == "\""
SQ == "'"
LF == "\n"
TAB == "\t"
CR == "\r"
SP == " "
BackspaceChar == "<backspace>"
FormFeedChar == "<formfeed>"
Digits == {"0", "1", "2", "3", "4", "5", "6", "7", "8", "9"}

\* ------------------------------------------------------------------------
\* Bounds of the model
\* ------------------------------------------------------------------------
MaxFeed == 3
MaxTextLen == 4
MaxValueLen == 3

\* ------------------------------------------------------------------------
\* Text helpers (String.prototype methods used by the program)
\* ------------------------------------------------------------------------
Take(s, n) == SubSeq(s, 1, IF n < Len(s) THEN n ELSE Len(s))

RECURSIVE Spaces(_)
Spaces(n) == IF n <= 0 THEN <<>> ELSE <<SP>> \o Spaces(n - 1)

\* s.padEnd(n)
padEnd(s, n) == s \o Spaces(n - Len(s))

\* s.slice(0, n) for n >= 0
slice0(s, n) == Take(s, n)

\* index of the first character at or after i that is not a space
RECURSIVE SkipSpaces(_, _)
SkipSpaces(s, i) ==
  IF i <= Len(s) /\ s[i] = SP THEN SkipSpaces(s, i + 1) ELSE i

At(s, i, c) == i <= Len(s) /\ s[i] = c

\* Length of the match of a pattern of decodeDescription/getDatum at
\* position i of s, 0 when the pattern does not match there.
\*   "commaNl"  /\\, *\\n/     "braceNl"  /{ *\\n/     "nlBrace"  /\\n *}/
\*   "comma"    /\\,/          "semi"     /\\;/        "quote"    /\\'/
MatchLen(pat, s, i) ==
  CASE pat = "commaNl" ->
         IF At(s, i, BS) /\ At(s, i + 1, ",")
         THEN LET j == SkipSpaces(s, i + 2)
              IN IF At(s, j, BS) /\ At(s, j + 1, "n") THEN j + 2 - i ELSE 0
         ELSE 0
    [] pat = "braceNl" ->
         IF At(s, i, "{")
         THEN LET j == SkipSpaces(s, i + 1)
              IN IF At(s, j, BS) /\ At(s, j + 1, "n") THEN j + 2 - i ELSE 0
         ELSE 0
    [] pat = "nlBrace" ->
         IF At(s, i, BS) /\ At(s, i + 1, "n")
         THEN LET j == SkipSpaces(s, i + 2)
              IN IF At(s, j, "}") THEN j + 1 - i ELSE 0
         ELSE 0
    [] pat = "comma" -> IF At(s, i, BS) /\ At(s, i + 1, ",") THEN 2 ELSE 0
    [] pat = "semi"  -> IF At(s, i, BS) /\ At(s, i + 1, ";") THEN 2 ELSE 0
    [] pat = "quote" -> IF At(s, i, BS) /\ At(s, i + 1, SQ) THEN 2 ELSE 0

\* s.replace(/pat/g, rep): leftmost matches, left to right, not overlapping
RECURSIVE ReplaceFrom(_, _, _, _)
ReplaceFrom(pat, rep, s, i) ==
  IF i > Len(s) THEN <<>>
  ELSE LET m == MatchLen(pat, s, i)
       IN IF m > 0 THEN rep \o ReplaceFrom(pat, rep, s, i + m)
          ELSE <<s[i]>> \o ReplaceFrom(pat, rep, s, i + 1)

ReplaceAll(pat, rep, s) == ReplaceFrom(pat, rep, s, 1)

\* ------------------------------------------------------------------------
\* getDatum and decodeDescription
\* ------------------------------------------------------------------------
\* An absent input (undefined) is written Absent; `input || ""` also maps
\* the empty text to "".
Absent == <<"undefined">>

\* getDatum of variant 1 (no maxlen)
getDatum(input) ==
  LET datum == IF input = Absent THEN <<>> ELSE input
  IN ReplaceAll("comma", <<",">>, datum)

\* getDatum of variant 2 (maxlen > 0 pads and cuts to maxlen)
getDatumMax(input, maxlen) ==
  LET datum == getDatum(input)
  IN IF maxlen > 0 THEN slice0(padEnd(datum, maxlen), maxlen) ELSE datum

decodeDescription(details) ==
  LET d0 == IF details = Absent \/ details = <<>> THEN <<"{", "}">> ELSE details
      d1 == ReplaceAll("commaNl", <<",">>, d0)
      d2 == ReplaceAll("braceNl", <<"{">>, d1)
      d3 == ReplaceAll("nlBrace", <<"}">>, d2)
      d4 == ReplaceAll("comma", <<",">>, d3)
      d5 == ReplaceAll("semi", <<";">>, d4)
      d6 == ReplaceAll("quote", <<SQ>>, d5)
  IN d6

\* ------------------------------------------------------------------------
\* JSON.parse on texts made of objects, strings and the literals
\* null/true/false (the model's texts hold no digits, brackets or \u
\* escapes, so numbers, arrays and unicode escapes never arise).
\* A JSON value is a record: t is its type, s the text of a string, o the
\* fields of an object (a function from key text to JSON value).
\* ------------------------------------------------------------------------
NoFields == [k \in {} |-> <<>>]

StrVal(s) == [t |-> "str", s |-> s, o |-> NoFields]

ObjVal(o) == [t |-> "obj", s |-> <<>>, o |-> o]

LitVal(t) == [t |-> t, s |-> <<>>, o |-> NoFields]

Undefined == LitVal("undefined")

ParseFail == [ok |-> FALSE, pos |-> 0, val |-> Undefined]

ParseOk(pos, val) == [ok |-> TRUE, pos |-> pos, val |-> val]

JsonWs == {SP, LF, TAB, CR}

ControlChars == {LF, TAB, CR, BackspaceChar, FormFeedChar}

\* the character an escape sequence \c stands for
EscapedChar(c) ==
  CASE c = DQ -> DQ
    [] c = BS -> BS
    [] c = "/" -> "/"
    [] c = "n" -> LF
    [] c = "t" -> TAB
    [] c = "r" -> CR
    [] c = "b" -> BackspaceChar
    [] c = "f" -> FormFeedChar

EscapeLetters == {DQ, BS, "/", "n", "t", "r", "b", "f"}

RECURSIVE SkipWs(_, _)
SkipWs(s, i) == IF i <= Len(s) /\ s[i] \in JsonWs THEN SkipWs(s, i + 1) ELSE i

HasPrefixAt(s, i, p) == i + Len(p) - 1 <= Len(s) /\ SubSeq(s, i, i + Len(p) - 1) = p

\* the characters of a string literal, from the one after the opening quote
RECURSIVE ParseChars(_, _, _)
ParseChars(s, i, acc) ==
  IF i > Len(s) THEN ParseFail
  ELSE IF s[i] = DQ THEN ParseOk(i + 1, StrVal(acc))
  ELSE IF s[i] = BS THEN
         IF i + 1 <= Len(s) /\ s[i + 1] \in EscapeLetters
         THEN ParseChars(s, i + 2, Append(acc, EscapedChar(s[i + 1])))
         ELSE ParseFail
  ELSE IF s[i] \in ControlChars THEN ParseFail
  ELSE ParseChars(s, i + 1, Append(acc, s[i]))

RECURSIVE ParseValue(_, _)
RECURSIVE ParseMembers(_, _, _)

\* the members of an object, from the position where a key is expected
ParseMembers(s, i, acc) ==
  LET j == SkipWs(s, i)
  IN IF ~At(s, j, DQ) THEN ParseFail
     ELSE LET k == ParseChars(s, j + 1, <<>>)
          IN IF ~k.ok THEN ParseFail
             ELSE LET c == SkipWs(s, k.pos)
                  IN IF ~At(s, c, ":") THEN ParseFail
                     ELSE LET v == ParseValue(s, c + 1)
                          IN IF ~v.ok THEN ParseFail
                             ELSE LET e == SkipWs(s, v.pos)
                                      acc2 == (k.val.s :> v.val) @@ acc
                                  IN IF At(s, e, ",") THEN ParseMembers(s, e + 1, acc2)
                                     ELSE IF At(s, e, "}") THEN ParseOk(e + 1, ObjVal(acc2))
                                     ELSE ParseFail

ParseObject(s, i) ==
  LET j == SkipWs(s, i)
  IN IF At(s, j, "}") THEN ParseOk(j + 1, ObjVal(NoFields))
     ELSE ParseMembers(s, j, NoFields)

ParseValue(s, i) ==
  LET j == SkipWs(s, i)
  IN IF At(s, j, DQ) THEN ParseChars(s, j + 1, <<>>)
     ELSE IF At(s, j, "{") THEN ParseObject(s, j + 1)
     ELSE IF HasPrefixAt(s, j, <<"n", "u", "l", "l">>) THEN ParseOk(j + 4, LitVal("null"))
     ELSE IF HasPrefixAt(s, j, <<"t", "r", "u", "e">>) THEN ParseOk(j + 4, LitVal("true"))
     ELSE IF HasPrefixAt(s, j, <<"f", "a", "l", "s", "e">>) THEN ParseOk(j + 5, LitVal("false"))
     ELSE ParseFail

\* JSON.parse(text): ok is FALSE where JSON.parse throws a SyntaxError
JSONparse(s) ==
  LET v == ParseValue(s, 1)
  IN IF v.ok /\ SkipWs(s, v.pos) > Len(s) THEN v ELSE ParseFail

\* try { details = JSON.parse(details) } catch(e) { details = marker }
\* The marker is an object with the two fields malformedJson, originalData.
MalformedKey == <<"m", "a", "l", "f", "o", "r", "m", "e", "d", "J", "s", "o", "n">>

OriginalKey == <<"o", "r", "i", "g", "i", "n", "a", "l", "D", "a", "t", "a">>

\* a marker that does not carry the text
MarkerWithoutData(text) == ObjVal((MalformedKey :> LitVal("true")))

Marker(text) == ObjVal((MalformedKey :> LitVal("true")) @@ (OriginalKey :> StrVal(text)))

tryParse(text) ==
  LET r == JSONparse(text)
  IN IF r.ok THEN r.val ELSE Marker(text)

\* details.role / details.type: the property read.  Reading a property of
\* null throws a TypeError; of a string or boolean it gives undefined.
RoleKey == <<"r", "o", "l", "e">>

TypeKey == <<"t", "y", "p", "e">>

ReadThrows(details) == details.t = "null"

Prop(details, key) ==
  IF details.t = "obj" /\ key \in DOMAIN details.o THEN details.o[key] ELSE Undefined

\* getDatum applied to a JSON value: `input || ""` turns the falsy values
\* into "", and datum.replace throws a TypeError on a truthy non-string.
Falsy(v) == v.t \in {"undefined", "null", "false"} \/ (v.t = "str" /\ v.s = <<>>)

DatumThrows(v) == ~Falsy(v) /\ v.t # "str"

getDatumOf(v) == IF Falsy(v) THEN getDatum(<<>>) ELSE getDatum(v.s)

\* ------------------------------------------------------------------------
\* Numbers and comparisons of texts
\* ------------------------------------------------------------------------
DigitSeq == <<"0", "1", "2", "3", "4", "5", "6", "7", "8", "9">>

DigitVal(c) == (CHOOSE i \in 1..10 : DigitSeq[i] = c) - 1

AllDigits(s) == \A i \in 1..Len(s) : s[i] \in Digits

RECURSIVE DigitsVal(_)
DigitsVal(s) ==
  IF s = <<>> THEN 0
  ELSE DigitsVal(SubSeq(s, 1, Len(s) - 1)) * 10 + DigitVal(s[Len(s)])

RECURSIVE TrimEnd(_)
TrimEnd(s) ==
  IF s # <<>> /\ s[Len(s)] \in JsonWs THEN TrimEnd(SubSeq(s, 1, Len(s) - 1)) ELSE s

RECURSIVE TrimStart(_)
TrimStart(s) == IF s # <<>> /\ s[1] \in JsonWs THEN TrimStart(Tail(s)) ELSE s

\* ToNumber of a text without sign, point or exponent: white space is
\* trimmed, the empty text is 0, a run of digits is its decimal value and
\* anything else is NaN.
ToNumber(s) ==
  LET t == TrimStart(TrimEnd(s))
  IN IF AllDigits(t) THEN [nan |-> FALSE, v |-> DigitsVal(t)]
     ELSE [nan |-> TRUE, v |-> 0]

\* UTF-16 code unit of the characters that occur in start values
CharCode(c) ==
  CASE c = SP -> 32
    [] c = "," -> 44
    [] c = "-" -> 45
    [] c \in Digits -> 48 + DigitVal(c)
    [] c = "T" -> 84
    [] c = "Z" -> 90
    [] c = BS -> 92

\* a > b on two texts: the first differing code unit decides, a proper
\* prefix is smaller
RECURSIVE StrGreater(_, _)
StrGreater(a, b) ==
  IF a = <<>> THEN FALSE
  ELSE IF b = <<>> THEN TRUE
  ELSE IF a[1] # b[1] THEN CharCode(a[1]) > CharCode(b[1])
  ELSE StrGreater(Tail(a), Tail(b))

\* ------------------------------------------------------------------------
\* processCalendar: classification of one event
\* ------------------------------------------------------------------------
StartLen == 8
NameLen == 50
LocationLen == 30

Speaker == <<"s", "p", "e", "a", "k", "e", "r">>

Host == <<"h", "o", "s", "t">>

\* let events = { speaker: [], host: [] }
EmptyBuckets == (Speaker :> <<>>) @@ (Host :> <<>>)

\* A raw event of the calendar decoder.  DTSTART is "missing" (no such
\* property: reading .value throws), or has a value that is a text or
\* Absent; SUMMARY, LOCATION and DESCRIPTION are texts or Absent.
Missing == <<"missing">>

\* the start taken whole, not cut to 8 characters
startOfWhole(v, vEvent) == getDatum(vEvent.DTSTART)

\* the start of the event: .slice(0,8) in variant 1, getDatum(..., 8) in
\* variant 2
startOf(v, vEvent) ==
  IF v = 1 THEN slice0(getDatum(vEvent.DTSTART), StartLen)
  ELSE getDatumMax(vEvent.DTSTART, StartLen)

nameOf(v, vEvent) ==
  IF v = 1 THEN getDatum(vEvent.SUMMARY) ELSE getDatumMax(vEvent.SUMMARY, NameLen)

locationOf(v, vEvent) ==
  IF v = 1 THEN getDatum(vEvent.LOCATION) ELSE getDatumMax(vEvent.LOCATION, LocationLen)

\* ------------------------------------------------------------------------
\* The feeds: how the upstream calendar writes a JSON object into a
\* DESCRIPTION, and the raw events the model draws feeds from
\* ------------------------------------------------------------------------
\* the characters of a JSON string literal (JSON.stringify of a text)
RECURSIVE JsonChars(_)
JsonChars(s) ==
  IF s = <<>> THEN <<>>
  ELSE (CASE s[1] = DQ -> <<BS, DQ>>
          [] s[1] = BS -> <<BS, BS>>
          [] s[1] = LF -> <<BS, "n">>
          [] OTHER -> <<s[1]>>) \o JsonChars(Tail(s))

JsonString(s) == <<DQ>> \o JsonChars(s) \o <<DQ>>

\* the members "k":"v" of the object, one per line, indented by ind
RECURSIVE JsonMembers(_, _)
JsonMembers(pairs, ind) ==
  IF pairs = <<>> THEN <<>>
  ELSE Spaces(ind) \o JsonString(pairs[1][1]) \o <<":">> \o JsonString(pairs[1][2])
       \o (IF Len(pairs) > 1 THEN <<",", LF>> ELSE <<LF>>)
       \o JsonMembers(Tail(pairs), ind)

\* the object written with a line break after the opening brace, after
\* each comma and before the closing brace
Stringify(pairs, ind) ==
  IF pairs = <<>> THEN <<"{", "}">>
  ELSE <<"{", LF>> \o JsonMembers(pairs, ind) \o <<"}">>

\* the calendar text escaping: commas, semicolons and single quotes get a
\* backslash, a line break is written backslash-n
RECURSIVE ICalEscape(_)
ICalEscape(s) ==
  IF s = <<>> THEN <<>>
  ELSE (CASE s[1] = "," -> <<BS, ",">>
          [] s[1] = ";" -> <<BS, ";">>
          [] s[1] = SQ -> <<BS, SQ>>
          [] s[1] = LF -> <<BS, "n">>
          [] OTHER -> <<s[1]>>) \o ICalEscape(Tail(s))

\* the object a sequence of key/value pairs denotes (a later pair wins)
RECURSIVE AsObject(_)
AsObject(pairs) ==
  IF pairs = <<>> THEN ObjVal(NoFields)
  ELSE LET rest == AsObject(SubSeq(pairs, 1, Len(pairs) - 1))
           last == pairs[Len(pairs)]
       IN ObjVal((last[1] :> StrVal(last[2])) @@ rest.o)

Conference == <<"c", "o", "n", "f", "e", "r", "e", "n", "c", "e">>

Meetup == <<"m", "e", "e", "t", "u", "p">>

Booth == <<"b", "o", "o", "t", "h">>

Sponsor == <<"s", "p", "o", "n", "s", "o", "r">>

\* the description of an event of the given role and type
Description(role, type, ind) ==
  ICalEscape(Stringify(<<<<RoleKey, role>>, <<TypeKey, type>>>>, ind))

D20240101 == <<"2", "0", "2", "4", "0", "1", "0", "1">>

D20240102 == <<"2", "0", "2", "4", "0", "1", "0", "2">>

TimeSuffix == <<"T", "0", "9", "0", "0", "0", "0">>

RawEvent(dtstart, summary, location, description) ==
  [DTSTART |-> dtstart, SUMMARY |-> summary, LOCATION |-> location,
   DESCRIPTION |-> description]

RawEvents ==
  { \* a speaker event with a date-time start and an escaped comma in its name
    RawEvent(D20240102 \o TimeSuffix, <<"A", BS, ",", "B">>, <<"X">>,
             Description(Speaker, Conference, 2)),
    \* a speaker event on the same day, given as a date
    RawEvent(D20240102, <<"C">>, Absent, Description(Speaker, Meetup, 0)),
    \* a speaker event one day earlier
    RawEvent(D20240101, <<"D">>, <<"Y">>, Description(Speaker, Meetup, 0)),
    \* a speaker event whose start has an escaped comma among its digits
    RawEvent(<<"2", "0", "2", "4", BS, ",", "0", "1", "0", "1">>, <<"E">>, <<"X">>,
             Description(Speaker, Conference, 0)),
    \* a host event whose start is shorter than a date
    RawEvent(<<"2", "0", "2", "4">>, <<"F">>, <<"Y">>, Description(Host, Conference, 0)),
    \* roles without a bucket
    RawEvent(D20240102, <<"G">>, <<"X">>, Description(Booth, Conference, 0)),
    RawEvent(D20240102, <<"H">>, <<"X">>, Description(Sponsor, Meetup, 0)),
    \* a description that is not JSON, no description, the description null
    RawEvent(D20240102, <<"I">>, <<"X">>, <<"T", "B", "A">>),
    RawEvent(D20240102, <<"J">>, <<"X">>, Absent),
    RawEvent(D20240102, <<"K">>, <<"X">>, <<"n", "u", "l", "l">>),
    \* an event without DTSTART
    RawEvent(Missing, <<"L">>, <<"X">>, Description(Speaker, Meetup, 0)),
    \* a host event given as a date
    RawEvent(D20240102, Absent, <<"Y", BS, ",", "Z">>, Description(Host, Meetup, 1)) }

\* ------------------------------------------------------------------------
\* processCalendar: classification of one event (continued)
\* ------------------------------------------------------------------------
\* decodeDescription followed by the guarded JSON.parse, for each
\* description of RawEvents (computed once)
DetailsTable ==
  [d \in {r.DESCRIPTION : r \in RawEvents} |-> tryParse(decodeDescription(d))]

\* let details = decodeDescription(vEvent.DESCRIPTION); try { JSON.parse }
detailsOf(vEvent) == DetailsTable[vEvent.DESCRIPTION]

\* building the event record throws a TypeError when DTSTART is missing,
\* when details is null, or when role or type is a truthy non-string
BuildThrows(vEvent) ==
  LET details == detailsOf(vEvent)
  IN \/ vEvent.DTSTART = Missing
     \/ ReadThrows(details)
     \/ DatumThrows(Prop(details, RoleKey))
     \/ DatumThrows(Prop(details, TypeKey))

\* the event record; idx is the position of the event in the feed (not a
\* field of the program's record, kept to tell events apart)
BuildEvent(v, vEvent, i) ==
  LET details == detailsOf(vEvent)
  IN [idx      |-> i,
      start    |-> startOf(v, vEvent),
      name     |-> nameOf(v, vEvent),
      location |-> locationOf(v, vEvent),
      role     |-> getDatumOf(Prop(details, RoleKey)),
      type     |-> getDatumOf(Prop(details, TypeKey))]

\* a lookup that never fails
HasBucketAlways(buckets, role) == TRUE

\* events[event.role] has a push method only for the keys of the literal
HasBucket(buckets, role) == role \in DOMAIN buckets

\* a push into the speaker bucket whatever the role
PushToSpeaker(buckets, event) ==
  [buckets EXCEPT ![Speaker] = Append(@, event)]

\* events[event.role].push(event)
Push(buckets, event) ==
  [buckets EXCEPT ![event.role] = Append(@, event)]

\* ------------------------------------------------------------------------
\* Sorting and filtering
\* ------------------------------------------------------------------------
\* the comparator with its operands swapped: b.start - a.start
sortByStartDateDescending(a, b) ==
  LET x == ToNumber(a.start)
      y == ToNumber(b.start)
  IN IF x.nan \/ y.nan THEN [nan |-> TRUE, v |-> 0]
     ELSE [nan |-> FALSE, v |-> y.v - x.v]

\* const sortByStartDate = (a,b) => a.start - b.start
sortByStartDate(a, b) ==
  LET x == ToNumber(a.start)
      y == ToNumber(b.start)
  IN IF x.nan \/ y.nan THEN [nan |-> TRUE, v |-> 0]
     ELSE [nan |-> FALSE, v |-> x.v - y.v]

\* the comparison as Array.prototype.sort uses it: NaN counts as 0
Cmp(a, b) == LET r == sortByStartDate(a, b) IN IF r.nan THEN 0 ELSE r.v

\* Array.prototype.sort is stable and sorts by the comparator when the
\* comparator is consistent on the elements; otherwise the order is
\* implementation-defined: any permutation.
ConsistentOn(s) ==
  \A i, j, k \in 1..Len(s) :
    (Cmp(s[i], s[j]) = 0 /\ Cmp(s[j], s[k]) = 0) => Cmp(s[i], s[k]) = 0

RECURSIVE InsertSorted(_, _)
InsertSorted(e, t) ==
  IF t = <<>> THEN <<e>>
  ELSE IF Cmp(Head(t), e) > 0 THEN <<e>> \o t
  ELSE <<Head(t)>> \o InsertSorted(e, Tail(t))

RECURSIVE StableSort(_)
StableSort(s) ==
  IF s = <<>> THEN <<>>
  ELSE InsertSorted(s[Len(s)], StableSort(SubSeq(s, 1, Len(s) - 1)))

Orderings(s) ==
  LET n == Len(s)
      P == {f \in [1..n -> 1..n] : \A i, j \in 1..n : f[i] = f[j] => i = j}
  IN {[i \in 1..n |-> s[f[i]]] : f \in P}

SortOutcomes(s) == IF ConsistentOn(s) THEN {StableSort(s)} ELSE Orderings(s)

\* the filter with >= in place of >
filterByStartDateInclusive(a, tday) == a.start = tday \/ StrGreater(a.start, tday)

\* const filterByStartDate = (a) => a.start > today
filterByStartDate(a, tday) == StrGreater(a.start, tday)

FilterBucket(s, tday) == SelectSeq(s, LAMBDA a : filterByStartDate(a, tday))

FilterAll(buckets, tday) ==
  [buckets EXCEPT ![Speaker] = FilterBucket(@, tday),
                  ![Host] = FilterBucket(@, tday)]

Feeds == UNION {[1..n -> RawEvents] : n \in 0..MaxFeed}

\* the dates the run can take place on
Todays == {D20240101, D20240102}

\* The descriptions of the decode run: every text over TextAlphabet up to
\* MaxTextLen characters, a few whole texts, and no description at all
TextAlphabet == {"{", "}", DQ, BS, "n", ","}

TextsOver(alphabet, n) == UNION {[1..k -> alphabet] : k \in 0..n}

SampleTexts ==
  { <<"n", "u", "l", "l">>,
    <<"t", "r", "u", "e">>,
    <<"{", DQ, "r", "o", "l", "e", DQ, ":", "{", "}", "}">>,
    <<"{", DQ, "r", "o", "l", "e", DQ, ":", "n", "u", "l", "l", "}">>,
    Description(Host, Meetup, 1) }

DescriptionTexts == TextsOver(TextAlphabet, MaxTextLen) \cup SampleTexts \cup {Absent}

\* The objects of the decode run: two string fields, the first with every
\* value over ValueAlphabet up to MaxValueLen characters
ValueAlphabet == {",", ";", SQ, "{", "}", BS, "n"}

KeyK == <<"k">>

KeyT == <<"t">>

Objects ==
  {<<<<KeyK, v>>, <<KeyT, <<"a", ",", "b">>>>>> : v \in TextsOver(ValueAlphabet, MaxValueLen)}

\* ------------------------------------------------------------------------
\* State
\* ------------------------------------------------------------------------
VARIABLES
  variant,      \* 1: lines 1-152, 2: lines 154-285
  historical,   \* argv.historical
  json,         \* argv.json
  pc,           \* where the run is
  fetches,      \* number of request.get calls made
  fetched,      \* what the request gave its callback: "pending", "error", "body"
  vCal,         \* the VEVENTs of the feed
  idx,          \* position of forEach in vCal
  events,       \* the buckets
  classified,   \* the buckets as left by forEach
  sorted,       \* the buckets as left by the two sort calls
  today,        \* the local date as YYYYMMDD, computed when the filter runs
  console,      \* the lines written by console.log
  dpc,          \* the decode run: where it is
  dobject,      \* the decode run: <<pairs>> when the description was written
                \* from the object of these pairs, <<>> otherwise
  dtext,        \* the decode run: the DESCRIPTION value
  dnorm,        \* the decode run: the result of decodeDescription
  ddetails,     \* the decode run: details after the guarded JSON.parse
  dfields       \* the decode run: the role and type read from details

runVars == <<variant, historical, json, pc, fetches, fetched, vCal, idx, events,
             classified, sorted, today, console>>

decodeVars == <<dpc, dobject, dtext, dnorm, ddetails, dfields>>

vars == <<runVars, decodeVars>>

NoFieldsRead == [role |-> <<>>, type |-> <<>>]

DecodeIdle ==
  /\ dpc = "idle"
  /\ dobject = <<>>
  /\ dtext = <<>>
  /\ dnorm = <<>>
  /\ ddetails = Undefined
  /\ dfields = NoFieldsRead

\* ------------------------------------------------------------------------
\* The run of the program
\* ------------------------------------------------------------------------
\* The state once the module is loaded: the flags are parsed and
\* request.get has been called once.  Variant 2 has no flags: it always
\* filters and always renders the card.
Init ==
  /\ variant \in {1, 2}
  /\ historical \in (IF variant = 1 THEN BOOLEAN ELSE {FALSE})
  /\ json \in (IF variant = 1 THEN BOOLEAN ELSE {FALSE})
  /\ pc = "fetching"
  /\ fetches = 1
  /\ fetched = "pending"
  /\ vCal = <<>>
  /\ idx = 0
  /\ events = EmptyBuckets
  /\ classified = EmptyBuckets
  /\ sorted = EmptyBuckets
  /\ today = <<>>
  /\ console = <<>>
  /\ DecodeIdle

\* a callback that prints the diagnostic and goes on to processCalendar
FetchErrorThenProcess ==
  /\ pc = "fetching"
  /\ fetched' = "error"
  /\ console' = Append(console, [kind |-> "diagnostic", events |-> EmptyBuckets])
  /\ vCal' = <<>>
  /\ idx' = 1
  /\ pc' = "forEach"
  /\ UNCHANGED <<variant, historical, json, fetches, events, classified, sorted,
                 today, decodeVars>>

\* the request callback with an error: console.log(`Couldn't load calendar`)
FetchError ==
  /\ pc = "fetching"
  /\ fetched' = "error"
  /\ console' = Append(console, [kind |-> "diagnostic", events |-> EmptyBuckets])
  /\ pc' = "failed"
  /\ UNCHANGED <<variant, historical, json, fetches, vCal, idx, events,
                 classified, sorted, today, decodeVars>>

\* the request callback with a body: processCalendar starts
FetchOk ==
  /\ pc = "fetching"
  /\ fetched' = "body"
  /\ \E feed \in Feeds : vCal' = feed
  /\ events' = EmptyBuckets
  /\ idx' = 1
  /\ pc' = "forEach"
  /\ UNCHANGED <<variant, historical, json, fetches, classified, sorted, today,
                 console, decodeVars>>

\* one iteration of vCal.forEach; a TypeError ends the run
ClassifyEvent ==
  /\ pc = "forEach"
  /\ idx <= Len(vCal)
  /\ IF BuildThrows(vCal[idx])
     THEN pc' = "crashed" /\ UNCHANGED <<events, idx>>
     ELSE LET event == BuildEvent(variant, vCal[idx], idx)
          IN IF HasBucket(events, event.role)
             THEN /\ events' = Push(events, event)
                  /\ idx' = idx + 1
                  /\ pc' = pc
             ELSE pc' = "crashed" /\ UNCHANGED <<events, idx>>
  /\ UNCHANGED <<variant, historical, json, fetches, fetched, vCal, classified,
                 sorted, today, console, decodeVars>>

\* events.speaker.sort(sortByStartDate); events.host.sort(sortByStartDate)
Sort ==
  /\ pc = "forEach"
  /\ idx > Len(vCal)
  /\ \E sp \in SortOutcomes(events[Speaker]), ho \in SortOutcomes(events[Host]) :
       events' = [events EXCEPT ![Speaker] = sp, ![Host] = ho]
  /\ classified' = events
  /\ sorted' = events'
  /\ pc' = IF variant = 1 THEN "filter" ELSE "render"
  /\ UNCHANGED <<variant, historical, json, fetches, fetched, vCal, idx, today,
                 console, decodeVars>>

\* variant 1: if(!argv.historical) { today = ...; filter both buckets }
Filter ==
  /\ pc = "filter"
  /\ IF ~historical
     THEN \E t \in Todays : today' = t /\ events' = FilterAll(events, t)
     ELSE UNCHANGED <<today, events>>
  /\ pc' = "render"
  /\ UNCHANGED <<variant, historical, json, fetches, fetched, vCal, idx,
                 classified, sorted, console, decodeVars>>

\* variant 1: console.log(JSON.stringify(events)) or renderBox(events)
Render ==
  /\ pc = "render"
  /\ variant = 1
  /\ console' = Append(console, [kind |-> IF json THEN "json" ELSE "card",
                                 events |-> events])
  /\ pc' = "done"
  /\ UNCHANGED <<variant, historical, json, fetches, fetched, vCal, idx, events,
                 classified, sorted, today, decodeVars>>

\* variant 2: renderBox filters the buckets and prints the card
RenderBox2 ==
  /\ pc = "render"
  /\ variant = 2
  /\ \E t \in Todays : today' = t /\ events' = FilterAll(events, t)
  /\ console' = Append(console, [kind |-> "card", events |-> events'])
  /\ pc' = "done"
  /\ UNCHANGED <<variant, historical, json, fetches, fetched, vCal, idx,
                 classified, sorted, decodeVars>>

Next ==
  \/ FetchError
  \/ FetchOk
  \/ ClassifyEvent
  \/ Sort
  \/ Filter
  \/ Render
  \/ RenderBox2

Spec == Init /\ [][Next]_vars

\* ------------------------------------------------------------------------
\* The decode run: decodeDescription, the guarded JSON.parse and the reads
\* of role and type, applied to one description
\* ------------------------------------------------------------------------
RunIdle ==
  /\ variant = 1
  /\ historical = FALSE
  /\ json = FALSE
  /\ pc = "off"
  /\ fetches = 0
  /\ fetched = "pending"
  /\ vCal = <<>>
  /\ idx = 0
  /\ events = EmptyBuckets
  /\ classified = EmptyBuckets
  /\ sorted = EmptyBuckets
  /\ today = <<>>
  /\ console = <<>>

InitDecode ==
  /\ RunIdle
  /\ dpc = "start"
  /\ \/ dobject = <<>> /\ dtext \in DescriptionTexts
     \/ \E pairs \in Objects :
          dobject = <<pairs>> /\ dtext = ICalEscape(Stringify(pairs, 0))
  /\ dnorm = <<>>
  /\ ddetails = Undefined
  /\ dfields = NoFieldsRead

\* let details = decodeDescription(vEvent.DESCRIPTION)
Normalize ==
  /\ dpc = "start"
  /\ dnorm' = decodeDescription(dtext)
  /\ dpc' = "normalized"
  /\ UNCHANGED <<dobject, dtext, ddetails, dfields, runVars>>

\* try { details = JSON.parse(details) } catch(e) { details = {...} }
Parse ==
  /\ dpc = "normalized"
  /\ ddetails' = tryParse(dnorm)
  /\ dpc' = "parsed"
  /\ UNCHANGED <<dobject, dtext, dnorm, dfields, runVars>>

\* role: getDatum(details.role), type: getDatum(details.type)
ReadFields ==
  /\ dpc = "parsed"
  /\ IF \/ ReadThrows(ddetails)
        \/ DatumThrows(Prop(ddetails, RoleKey))
        \/ DatumThrows(Prop(ddetails, TypeKey))
     THEN dpc' = "threw" /\ UNCHANGED dfields
     ELSE /\ dfields' = [role |-> getDatumOf(Prop(ddetails, RoleKey)),
                         type |-> getDatumOf(Prop(ddetails, TypeKey))]
          /\ dpc' = "read"
  /\ UNCHANGED <<dobject, dtext, dnorm, ddetails, runVars>>

NextDecode ==
  \/ Normalize
  \/ Parse
  \/ ReadFields

SpecDecode == InitDecode /\ [][NextDecode]_vars

\* ------------------------------------------------------------------------
\* Notions the properties are stated with
\* ------------------------------------------------------------------------
BucketKeys == {Speaker, Host}

\* the role set of the data model
KnownRoles == {Speaker, Host, Booth, <<"a", "t", "t", "e", "n", "d", "e", "e">>}

IsDateKey(s) == Len(s) = 8 /\ AllDigits(s)

\* a is later than b in text order: at the first position where they
\* differ a has the greater character, or b ends there
LaterThan(a, b) ==
  \E k \in 1..Len(a) :
    /\ \A m \in 1..(k - 1) : m <= Len(b) /\ a[m] = b[m]
    /\ k > Len(b) \/ CharCode(a[k]) > CharCode(b[k])

AfterSort == pc \in {"filter", "render", "done"}

Rendered == pc = "done"

\* what the presenter was given
Presented == console[Len(console)].events

Filtering == variant = 2 \/ ~historical

Ids(s) == {s[i].idx : i \in 1..Len(s)}

Pos(s, id) == CHOOSE i \in 1..Len(s) : s[i].idx = id

\* a is b with some elements left out
IsSubSeq(a, b) ==
  /\ Ids(a) \subseteq Ids(b)
  /\ \A i \in 1..Len(a) : a[i] = b[Pos(b, a[i].idx)]
  /\ \A i, j \in 1..Len(a) : i < j => Pos(b, a[i].idx) < Pos(b, a[j].idx)

\* the role the description of a raw event decodes to
roleOf(vEvent) == getDatumOf(Prop(detailsOf(vEvent), RoleKey))

Unparsable(vEvent) == ~JSONparse(decodeDescription(vEvent.DESCRIPTION)).ok

\* the DTSTART value of the raw event with its escaped commas unescaped
Unescaped(vEvent) == ReplaceAll("comma", <<",">>, vEvent.DTSTART)

AllBuckets == {events, classified, sorted}

\* ------------------------------------------------------------------------
\* C1
\* ------------------------------------------------------------------------
\* C1: the bucket handed to the presenter holds, when past events are
\* filtered, exactly the events of the sorted bucket whose start is
\* strictly later than today, in their order (for date keys: whose date
\* number is greater than today's); with --historical it is the sorted
\* bucket unchanged.
C1_FilterKeepsFuture ==
  Rendered =>
    \A b \in BucketKeys :
      IF Filtering
      THEN /\ Presented[b] = SelectSeq(sorted[b], LAMBDA e : LaterThan(e.start, today))
           /\ \A i \in 1..Len(sorted[b]) :
                IsDateKey(sorted[b][i].start) =>
                  ((sorted[b][i].idx \in Ids(Presented[b]))
                     <=> DigitsVal(sorted[b][i].start) > DigitsVal(today))
      ELSE Presented[b] = sorted[b]

\* an event dated today was dropped and an event dated tomorrow was kept
C1_Witness ==
  /\ Rendered
  /\ Filtering
  /\ \E i \in 1..Len(sorted[Speaker]) :
       /\ sorted[Speaker][i].start = today
       /\ sorted[Speaker][i].idx \notin Ids(Presented[Speaker])
  /\ \E i \in 1..Len(Presented[Speaker]) :
       /\ IsDateKey(Presented[Speaker][i].start)
       /\ DigitsVal(Presented[Speaker][i].start) = DigitsVal(today) + 1

\* ------------------------------------------------------------------------
\* C2
\* ------------------------------------------------------------------------
Ascending(s) ==
  \A i, j \in 1..Len(s) : i < j => ~LaterThan(s[i].start, s[j].start)

StableOrder(s) ==
  \A i, j \in 1..Len(s) : (i < j /\ s[i].start = s[j].start) => s[i].idx < s[j].idx

\* C2 as stated: after the sort every bucket is ascending by start and
\* equal starts keep their feed order; the filter keeps the order.
C2_SortedAscending ==
  AfterSort =>
    \A b \in BucketKeys :
      /\ Ascending(sorted[b])
      /\ StableOrder(sorted[b])
      /\ IsSubSeq(events[b], sorted[b])

\* C2 amended: after the sort every bucket whose starts are all 8-digit
\* date keys is ascending by start and equal starts keep their feed
\* order; the filter keeps the relative order of the events of any bucket.
C2_SortedAscendingDateKeys ==
  AfterSort =>
    \A b \in BucketKeys :
      /\ (\A i \in 1..Len(classified[b]) : IsDateKey(classified[b][i].start)) =>
           /\ Ascending(sorted[b])
           /\ StableOrder(sorted[b])
           /\ \A i, j \in 1..Len(sorted[b]) :
                i < j => DigitsVal(sorted[b][i].start) <= DigitsVal(sorted[b][j].start)
      /\ IsSubSeq(events[b], sorted[b])

\* the sort moved an event in a bucket of date keys that has two equal starts
C2_Witness ==
  /\ AfterSort
  /\ \A i \in 1..Len(classified[Speaker]) : IsDateKey(classified[Speaker][i].start)
  /\ sorted[Speaker] # classified[Speaker]
  /\ \E i, j \in 1..Len(sorted[Speaker]) :
       i < j /\ sorted[Speaker][i].start = sorted[Speaker][j].start

\* ------------------------------------------------------------------------
\* C3
\* ------------------------------------------------------------------------
\* C3: when the event forEach is at decodes to a role that is no bucket
\* key, the step ends the run with the buckets and the console untouched;
\* no step leaves the crashed state, and the buckets never get another key.
C3_UnknownRoleAborts ==
  [][/\ (/\ pc = "forEach"
         /\ idx <= Len(vCal)
         /\ ~BuildThrows(vCal[idx])
         /\ roleOf(vCal[idx]) \notin BucketKeys)
          => (pc' = "crashed" /\ events' = events /\ console' = console)
     /\ pc # "crashed"
     /\ DOMAIN events' = BucketKeys]_vars

\* the run crashed on an event whose role is "sponsor" or is missing
C3_Witness ==
  /\ pc = "crashed"
  /\ ~BuildThrows(vCal[idx])
  /\ roleOf(vCal[idx]) \in {Sponsor, <<>>}
  /\ idx > 1
  /\ console = <<>>

\* ------------------------------------------------------------------------
\* C4
\* ------------------------------------------------------------------------
\* C4: an event whose description cannot be parsed does not stop the
\* pipeline: the run never ends at such an event.
C4_UnparsableDoesNotStop ==
  pc = "crashed" => ~Unparsable(vCal[idx])

\* ------------------------------------------------------------------------
\* C5
\* ------------------------------------------------------------------------
\* C5 as stated: every event in a bucket has a start of exactly 8 digits,
\* the first 8 characters of the unescaped DTSTART value.
C5_StartIsEightDigits ==
  \A B \in AllBuckets, b \in BucketKeys :
    \A i \in 1..Len(B[b]) :
      /\ IsDateKey(B[b][i].start)
      /\ B[b][i].start = SubSeq(Unescaped(vCal[B[b][i].idx]), 1, 8)

\* C5 amended: every event in a bucket whose unescaped DTSTART value has
\* at least 8 characters has these first 8 characters as its start, so a
\* start of exactly 8 digits when the value begins with 8 digits; a
\* shorter value gives a start that is no date key.
C5_StartIsDatePrefix ==
  \A B \in AllBuckets, b \in BucketKeys :
    \A i \in 1..Len(B[b]) :
      LET u == Unescaped(vCal[B[b][i].idx])
      IN /\ Len(u) >= 8 => B[b][i].start = SubSeq(u, 1, 8)
         /\ (Len(u) >= 8 /\ AllDigits(SubSeq(u, 1, 8))) => IsDateKey(B[b][i].start)
         /\ Len(u) < 8 => ~IsDateKey(B[b][i].start)

\* a bucket holds an event made from a date-time value, cut to its date
C5_Witness ==
  \E i \in 1..Len(events[Speaker]) :
    /\ Len(vCal[events[Speaker][i].idx].DTSTART) > 8
    /\ events[Speaker][i].start = D20240102

\* ------------------------------------------------------------------------
\* C6
\* ------------------------------------------------------------------------
\* C6: the buckets have a key for every role of the role set: the run
\* never ends at an event for want of the bucket of such a role.
C6_BucketPerKnownRole ==
  (pc = "crashed" /\ ~BuildThrows(vCal[idx])) => roleOf(vCal[idx]) \notin KnownRoles

\* ------------------------------------------------------------------------
\* C7
\* ------------------------------------------------------------------------
\* C7: the fetch is made once; when it gave an error the console holds the
\* one diagnostic and nothing else, the run is over and processCalendar has
\* touched nothing.
C7_FetchErrorEndsRun ==
  /\ fetches = 1
  /\ fetched = "error" =>
       /\ pc = "failed"
       /\ Len(console) = 1
       /\ console[1].kind = "diagnostic"
       /\ vCal = <<>>
       /\ idx = 0
       /\ events = EmptyBuckets
       /\ sorted = EmptyBuckets

C7_Witness == fetched = "error" /\ pc = "failed" /\ Len(console) = 1

\* ------------------------------------------------------------------------
\* C8
\* ------------------------------------------------------------------------
\* C8: a description written from an object parses back to that object.
C8_RoundTrip ==
  (dobject # <<>> /\ dpc \in {"parsed", "read", "threw"}) =>
    ddetails = AsObject(dobject[1])

\* ------------------------------------------------------------------------
\* C9
\* ------------------------------------------------------------------------
IsMarkerOf(details, text) ==
  /\ details.t = "obj"
  /\ DOMAIN details.o = {MalformedKey, OriginalKey}
  /\ details.o[MalformedKey].t = "true"
  /\ details.o[OriginalKey] = StrVal(text)

\* C9: after the guarded parse, details is the value the normalized text
\* parses to or, when it does not parse, the marker carrying exactly the
\* normalized text; the reads of role and type from the marker give the
\* empty text and do not throw.
C9_DecodeTotal ==
  dpc \in {"parsed", "read", "threw"} =>
    LET r == JSONparse(dnorm)
    IN /\ r.ok => ddetails = r.val
       /\ ~r.ok =>
            /\ IsMarkerOf(ddetails, dnorm)
            /\ dpc # "threw"
            /\ dpc = "read" => dfields = [role |-> <<>>, type |-> <<>>]

\* the normalizer changed the text, the text did not parse and the fields
\* were read from the marker
C9_Witness ==
  /\ dpc = "read"
  /\ dobject = <<>>
  /\ dtext # Absent
  /\ dnorm # dtext
  /\ IsMarkerOf(ddetails, dnorm)

\* ------------------------------------------------------------------------
\* C10
\* ------------------------------------------------------------------------
ExactlyOnce(B) ==
  \A n \in 1..Len(vCal) :
    /\ \A b \in BucketKeys : Cardinality({i \in 1..Len(B[b]) : B[b][i].idx = n}) =
                               (IF roleOf(vCal[n]) = b THEN 1 ELSE 0)
    /\ roleOf(vCal[n]) \in BucketKeys

\* C10: after forEach and after the sort every feed event is exactly once
\* in the buckets, in the bucket of its role, and the sorted bucket holds
\* the very records forEach made; after the filter each bucket is its
\* sorted bucket with some events left out.
C10_Conservation ==
  AfterSort =>
    /\ ExactlyOnce(classified)
    /\ ExactlyOnce(sorted)
    /\ \A b \in BucketKeys :
         /\ Len(sorted[b]) = Len(classified[b])
         /\ \A i \in 1..Len(sorted[b]) :
              sorted[b][i] = classified[b][Pos(classified[b], sorted[b][i].idx)]
         /\ IsSubSeq(events[b], sorted[b])

\* three events in two buckets, reordered by the sort and thinned by the filter
C10_Witness ==
  /\ Rendered
  /\ Len(vCal) = 3
  /\ Len(sorted[Speaker]) = 2
  /\ Len(sorted[Host]) = 1
  /\ sorted[Speaker] # classified[Speaker]
  /\ Len(events[Speaker]) = 1

====
